---- MODULE Spec2Model ----
(***************************************************************************)
(* Model of llvm/debug.go: the debug descriptors, their lowering into      *)
(* metadata nodes (mdNode) and the identity-keyed cache of DebugInfo       *)
(* (MDNode / MDNodes).                                                     *)
(*                                                                         *)
(* A descriptor reference is an integer: NilIface is the nil interface,    *)
(* NilPtr a nil pointer boxed in the interface, n >= 1 the pointer to      *)
(* descriptor instance n.  A Value is a record tagged by t: "null" is      *)
(* Value{nil}, "int" a constant integer, "str" a metadata string, "node"   *)
(* the handle of a metadata node of the heap `nodes`, "opaque" a value     *)
(* generated elsewhere.  Strings are sequences of one-character strings.   *)
(* The recursion MDNode -> mdNode -> MDNode is a stack of frames; every    *)
(* frame evaluates the element list of its descriptor's mdNode from left   *)
(* to right.  Integers of the model stay below 2^31.                       *)
(***************************************************************************)
EXTENDS Integers, Sequences, FiniteSets, TLC

\* ------------------------------------------------------------- bounds
MaxCalls == 2
MaxMutations == 1
MaxDepth == 6
MaxPathLen == 3

\* ---------------------------------------------------------- constants
LLVMDebugVersion == 12 * 65536

DW_TAG_lexical_block == 11
DW_TAG_compile_unit == 17
DW_TAG_variable == 52
DW_TAG_base_type == 36
DW_TAG_pointer_type == 15
DW_TAG_structure_type == 19
DW_TAG_subroutine_type == 21
DW_TAG_file_type == 41
DW_TAG_subprogram == 46
DW_TAG_auto_variable == 256
DW_TAG_arg_variable == 257
FlagPrototyped == 256
DW_LANG_Go == 22
DW_ATE_signed == 5

\* -------------------------------------------------------------- values
NullValue == [t |-> "null"]
NoValue == [t |-> "none"]
ConstInt(bits, n) == [t |-> "int", bits |-> bits, v |-> n]
ConstNull(bits) == ConstInt(bits, 0)
ConstAllOnes(bits) == ConstInt(bits, 2^bits - 1)
MDString(s) == [t |-> "str", s |-> s]
NodeRef(id) == [t |-> "node", id |-> id]
Opaque(h) == [t |-> "opaque", h |-> h]

constInt1(v) == IF v THEN ConstAllOnes(1) ELSE ConstNull(1)

\* a | b, bit by bit
RECURSIVE BitOr(_, _)
BitOr(a, b) ==
  IF a = 0 THEN b
  ELSE IF b = 0 THEN a
  ELSE (IF a % 2 = 1 \/ b % 2 = 1 THEN 1 ELSE 0)
       + 2 * CHOOSE r \in {BitOr(x, y) : x \in {a \div 2}, y \in {b \div 2}} : TRUE

\* --------------------------------------------------------- references
NilIface == 0
NilPtr == -1

IsNil_pointerOnly(d) == d = NilIface

\* d == nil || reflect.ValueOf(d).IsNil()
IsNil(d) == d = NilIface \/ d = NilPtr

\* ------------------------------------------------------------- strings
Alphabet == {"/", "a", "."}
Paths == UNION {[1..k -> Alphabet] : k \in 0..MaxPathLen}

\* strings.LastIndex, counted from 1: 0 when c does not occur in s
LastIndex(s, c) ==
  IF \E i \in DOMAIN s : s[i] = c
  THEN CHOOSE i \in DOMAIN s : s[i] = c /\ \A j \in DOMAIN s : j > i => s[j] # c
  ELSE 0

\* path.Split: the path through its last '/', and the rest
Split(p) ==
  LET i == LastIndex(p, "/")
  IN  [dir |-> SubSeq(p, 1, i), file |-> SubSeq(p, i + 1, Len(p))]

Dirname_keepSlash(p) == Split(p).dir

\* the directory with one trailing '/' removed
Dirname(p) ==
  LET dirname == Split(p).dir
      l == Len(dirname)
  IN  IF l > 0 /\ dirname[l] = "/" THEN SubSeq(dirname, 1, l - 1) ELSE dirname

Filename(p) == Split(p).file

\* -------------------------------------------------------- descriptors
Kinds == {"BasicType", "CompositeType", "DerivedType", "CompileUnit",
          "Subprogram", "GlobalVariable", "LocalVariable", "File", "Line",
          "Block", "Context"}

\* a zero-valued descriptor: every field of every variant
Blank ==
  [kind |-> "File", tag |-> 0,
   Context |-> NilIface, File |-> NilPtr, Type |-> NilIface, Base |-> NilIface,
   Members |-> <<>>, EnumTypes |-> <<>>, RetainedTypes |-> <<>>,
   Subprograms |-> <<>>, GlobalVariables |-> <<>>,
   Path |-> <<>>, Name |-> <<>>, DisplayName |-> <<>>, Producer |-> <<>>,
   CompilerFlags |-> <<>>,
   Line |-> 0, Column |-> 0, Id |-> 0, Size |-> 0, Alignment |-> 0,
   Offset |-> 0, Flags |-> 0, TypeEncoding |-> 0, Language |-> 0,
   Runtime |-> 0, Argument |-> 0, ScopeLine |-> 0,
   Optimized |-> FALSE, Local |-> FALSE, External |-> FALSE,
   Function |-> NullValue, Value |-> NullValue]

NewFile(path) == [Blank EXCEPT !.kind = "File", !.Path = path]
NewContext(path) == [Blank EXCEPT !.kind = "Context", !.Path = path]
NewStructCompositeType(Members) ==
  [Blank EXCEPT !.kind = "CompositeType", !.tag = DW_TAG_structure_type,
                !.Members = Members]
NewSubroutineCompositeType(Result, Params) ==
  [Blank EXCEPT !.kind = "CompositeType", !.tag = DW_TAG_subroutine_type,
                !.Members = <<Result>> \o Params]
NewPointerDerivedType(Base) ==
  [Blank EXCEPT !.kind = "DerivedType", !.tag = DW_TAG_pointer_type,
                !.Base = Base]
NewLocalVariableDescriptor(tag) ==
  [Blank EXCEPT !.kind = "LocalVariable", !.tag = tag, !.File = NilIface]

TagPanics(dsc) == dsc.kind = "Line"

Tag(dsc) ==
  CASE dsc.kind = "BasicType" -> DW_TAG_base_type
    [] dsc.kind = "CompositeType" -> dsc.tag
    [] dsc.kind = "DerivedType" -> dsc.tag
    [] dsc.kind = "CompileUnit" -> DW_TAG_compile_unit
    [] dsc.kind = "Subprogram" -> DW_TAG_subprogram
    [] dsc.kind = "GlobalVariable" -> DW_TAG_variable
    [] dsc.kind = "LocalVariable" -> dsc.tag
    [] dsc.kind = "File" -> DW_TAG_file_type
    [] dsc.kind = "Context" -> DW_TAG_file_type
    [] dsc.kind = "Block" -> DW_TAG_lexical_block

\* ------------------------------------------------- element lists
\* The element list a mdNode builds is a sequence of items evaluated from
\* left to right on a stack of values: "push" a constant, "lower" a
\* reference through info.MDNode, "wrap" the last n values into a new node
\* (the package-level MDNode constructor).
Push(v) == <<[op |-> "push", v |-> v]>>
Lower(r) == <<[op |-> "lower", ref |-> r]>>
Wrap(n) == <<[op |-> "wrap", n |-> n]>>

RECURSIVE MDNodes_reversed(_)
MDNodes_reversed(d) ==
  IF d = <<>> THEN <<>>
  ELSE MDNodes_reversed(SubSeq(d, 2, Len(d))) \o Lower(d[1])

\* DebugInfo.MDNodes: v[i] = info.MDNode(d[i]) for i = 0 .. n-1
RECURSIVE MDNodes(_)
MDNodes(d) ==
  IF d = <<>> THEN <<>>
  ELSE Lower(d[1]) \o MDNodes(SubSeq(d, 2, Len(d)))

\* what MDNodes returns, a slice: nil when the input is empty
MDNodesResult(n, v) ==
  IF n > 0 THEN [nil |-> FALSE, elems |-> v] ELSE [nil |-> TRUE, elems |-> <<>>]

\* MDNode(info.MDNodes(list)): the lowered list as a nested node
NodeOfList(list) == MDNodes(list) \o Wrap(Len(list))

TagVersion_noVersion(dsc) == ConstInt(32, Tag(dsc))

\* ConstInt(Int32Type(), LLVMDebugVersion+uint64(d.Tag()), false)
TagVersion(dsc) == ConstInt(32, LLVMDebugVersion + Tag(dsc))

FileDescriptor_mdNode(dsc) ==
  Push(MDString(Filename(dsc.Path))) \o Push(MDString(Dirname(dsc.Path)))

\* d.Path.mdNode(nil): the file node built directly, not through the cache
RawFile(dsc) == FileDescriptor_mdNode(dsc) \o Wrap(2)

BasicTypeDescriptor_mdNode_skipAbsent(dsc) ==
     Push(TagVersion(dsc))
  \o (IF dsc.File = NilPtr THEN <<>> ELSE Lower(dsc.File))
  \o (IF dsc.Context = NilIface THEN <<>> ELSE Lower(dsc.Context))
  \o Push(MDString(dsc.Name))
  \o Push(ConstInt(32, dsc.Line))
  \o Push(ConstInt(64, dsc.Size))
  \o Push(ConstInt(64, dsc.Alignment))
  \o Push(ConstInt(64, dsc.Offset))
  \o Push(ConstInt(32, dsc.Flags))
  \o Push(ConstInt(32, dsc.TypeEncoding))

BasicTypeDescriptor_mdNode(dsc) ==
     Push(TagVersion(dsc))
  \o Lower(dsc.File)
  \o Lower(dsc.Context)
  \o Push(MDString(dsc.Name))
  \o Push(ConstInt(32, dsc.Line))
  \o Push(ConstInt(64, dsc.Size))
  \o Push(ConstInt(64, dsc.Alignment))
  \o Push(ConstInt(64, dsc.Offset))
  \o Push(ConstInt(32, dsc.Flags))
  \o Push(ConstInt(32, dsc.TypeEncoding))

CompositeTypeDescriptor_mdNode(dsc) ==
     Push(TagVersion(dsc))
  \o Lower(dsc.File)
  \o Lower(dsc.Context)
  \o Push(MDString(dsc.Name))
  \o Push(ConstInt(32, dsc.Line))
  \o Push(ConstInt(64, dsc.Size))
  \o Push(ConstInt(64, dsc.Alignment))
  \o Push(ConstInt(64, dsc.Offset))
  \o Push(ConstInt(32, dsc.Flags))
  \o Lower(NilIface)
  \o NodeOfList(dsc.Members)
  \o Push(ConstInt(32, 0))
  \o Push(ConstInt(32, 0))

CompileUnitDescriptor_mdNode(dsc) ==
     Push(TagVersion(dsc))
  \o RawFile(dsc)
  \o Push(ConstInt(32, dsc.Language))
  \o Push(MDString(dsc.Producer))
  \o Push(constInt1(dsc.Optimized))
  \o Push(MDString(dsc.CompilerFlags))
  \o Push(ConstInt(32, dsc.Runtime))
  \o NodeOfList(dsc.EnumTypes)
  \o NodeOfList(dsc.RetainedTypes)
  \o NodeOfList(dsc.Subprograms)
  \o NodeOfList(dsc.GlobalVariables)
  \o Wrap(0)
  \o Push(MDString(<<>>))

DerivedTypeDescriptor_mdNode(dsc) ==
     Push(TagVersion(dsc))
  \o Lower(dsc.File)
  \o Lower(dsc.Context)
  \o Push(MDString(dsc.Name))
  \o Push(ConstInt(32, dsc.Line))
  \o Push(ConstInt(64, dsc.Size))
  \o Push(ConstInt(64, dsc.Alignment))
  \o Push(ConstInt(64, dsc.Offset))
  \o Push(ConstInt(32, dsc.Flags))
  \o Lower(dsc.Base)

SubprogramDescriptor_mdNode(dsc) ==
     Push(TagVersion(dsc))
  \o RawFile(dsc)
  \o Lower(dsc.Context)
  \o Push(MDString(dsc.Name))
  \o Push(MDString(dsc.DisplayName))
  \o Push(MDString(<<>>))
  \o Push(ConstInt(32, dsc.Line))
  \o Lower(dsc.Type)
  \o Push(ConstNull(1))
  \o Push(ConstAllOnes(1))
  \o Push(ConstNull(32))
  \o Push(ConstNull(32))
  \o Lower(NilIface)
  \o Push(ConstInt(32, FlagPrototyped))
  \o Push(ConstNull(1))
  \o Push(dsc.Function)
  \o Lower(NilIface)
  \o Lower(NilIface)
  \o Wrap(0)
  \o Push(ConstInt(32, dsc.ScopeLine))

GlobalVariableDescriptor_mdNode(dsc) ==
     Push(TagVersion(dsc))
  \o Push(ConstNull(32))
  \o Lower(dsc.Context)
  \o Push(MDString(dsc.Name))
  \o Push(MDString(dsc.DisplayName))
  \o Wrap(0)
  \o Lower(dsc.File)
  \o Push(ConstInt(32, dsc.Line))
  \o Lower(dsc.Type)
  \o Push(constInt1(dsc.Local))
  \o Push(constInt1(~dsc.External))
  \o Push(dsc.Value)

LocalVariableDescriptor_mdNode(dsc) ==
     Push(TagVersion(dsc))
  \o Lower(dsc.Context)
  \o Push(MDString(dsc.Name))
  \o Lower(dsc.File)
  \o Push(ConstInt(32, BitOr(dsc.Line, dsc.Argument * 2^24)))
  \o Lower(dsc.Type)
  \o Push(ConstNull(32))
  \o Push(ConstNull(32))

LineDescriptor_mdNode(dsc) ==
     Push(ConstInt(32, dsc.Line))
  \o Push(ConstInt(32, dsc.Column))
  \o Lower(dsc.Context)
  \o Lower(NilIface)

ContextDescriptor_mdNode(dsc) ==
  Push(TagVersion(dsc)) \o RawFile(dsc)

BlockDescriptor_mdNode(dsc) ==
     Push(TagVersion(dsc))
  \o Lower(dsc.File)
  \o Lower(dsc.Context)
  \o Push(ConstInt(32, dsc.Line))
  \o Push(ConstInt(32, dsc.Column))
  \o Push(ConstInt(32, dsc.Id))

\* d.mdNode(info): dispatch on the dynamic type of the descriptor
mdNode(dsc) ==
  CASE dsc.kind = "BasicType" -> BasicTypeDescriptor_mdNode(dsc)
    [] dsc.kind = "CompositeType" -> CompositeTypeDescriptor_mdNode(dsc)
    [] dsc.kind = "DerivedType" -> DerivedTypeDescriptor_mdNode(dsc)
    [] dsc.kind = "CompileUnit" -> CompileUnitDescriptor_mdNode(dsc)
    [] dsc.kind = "Subprogram" -> SubprogramDescriptor_mdNode(dsc)
    [] dsc.kind = "GlobalVariable" -> GlobalVariableDescriptor_mdNode(dsc)
    [] dsc.kind = "LocalVariable" -> LocalVariableDescriptor_mdNode(dsc)
    [] dsc.kind = "File" -> FileDescriptor_mdNode(dsc)
    [] dsc.kind = "Line" -> LineDescriptor_mdNode(dsc)
    [] dsc.kind = "Context" -> ContextDescriptor_mdNode(dsc)
    [] dsc.kind = "Block" -> BlockDescriptor_mdNode(dsc)

\* ------------------------------------------------------- input graphs
\* Descriptor graphs a frontend can assemble; descriptor n is element n.
IntName == <<"i", "n", "t">>
MainPath == <<"/", "a", "/", "m", ".", "x">>

BasicInt ==
  [Blank EXCEPT !.kind = "BasicType", !.Name = IntName, !.File = 1, !.Line = 5,
                !.Size = 32, !.Alignment = 32, !.TypeEncoding = DW_ATE_signed]

\* a file, two basic types with equal fields, a pointer with no file, a
\* struct with a repeated and an absent member
TypeGraph ==
  << NewFile(MainPath),
     BasicInt,
     BasicInt,
     NewPointerDerivedType(2),
     [NewStructCompositeType(<<2, 4, NilIface, 2>>) EXCEPT !.File = 1, !.Line = 7] >>

\* a compile unit with one subprogram and one global variable
UnitGraph ==
  << NewContext(MainPath),
     NewSubroutineCompositeType(NilIface, <<>>),
     [Blank EXCEPT !.kind = "Subprogram", !.Context = 1, !.Name = <<"f">>,
                   !.DisplayName = <<"f">>, !.Type = 2, !.Line = 3,
                   !.ScopeLine = 4, !.Path = MainPath, !.Function = Opaque(1)],
     [Blank EXCEPT !.kind = "GlobalVariable", !.Context = 1, !.Name = <<"g">>,
                   !.DisplayName = <<"g">>, !.Line = 2, !.Local = TRUE,
                   !.Value = Opaque(2)],
     [Blank EXCEPT !.kind = "CompileUnit", !.Path = MainPath,
                   !.Language = DW_LANG_Go, !.Producer = <<"g", "o">>,
                   !.Optimized = TRUE, !.Subprograms = <<3>>,
                   !.GlobalVariables = <<4>>] >>

\* a block, an argument variable in it and two equal line markers
ScopeGraph ==
  << NewFile(MainPath),
     [Blank EXCEPT !.kind = "Block", !.File = 1, !.Line = 3, !.Column = 1, !.Id = 1],
     [NewLocalVariableDescriptor(DW_TAG_arg_variable) EXCEPT
        !.Context = 2, !.Name = <<"x">>, !.File = 1, !.Line = 10, !.Argument = 2],
     [Blank EXCEPT !.kind = "Line", !.File = NilIface, !.Line = 5, !.Column = 2,
                   !.Context = 2],
     [Blank EXCEPT !.kind = "Line", !.File = NilIface, !.Line = 5, !.Column = 2,
                   !.Context = 2] >>

\* a pointer type whose base is a struct that has the pointer as a member,
\* a basic type outside the cycle, and a pointer into the cycle
CycleGraph ==
  << NewPointerDerivedType(2),
     NewStructCompositeType(<<1>>),
     [BasicInt EXCEPT !.File = NilPtr],
     NewPointerDerivedType(1) >>

Graphs == {TypeGraph, UnitGraph, ScopeGraph, CycleGraph}

ExamplePaths == { <<"/", "a", "/", "b", "/", "c", ".", "x">>, <<"c", ".", "x">> }

\* a file of any path, the context wrapping it and a block in it
PathGraph(p) ==
  << NewFile(p),
     NewContext(p),
     [Blank EXCEPT !.kind = "Block", !.File = 1, !.Context = 2, !.Line = 1] >>

PathGraphs == {PathGraph(p) : p \in Paths \cup ExamplePaths}

\* --------------------------------------------------------------- state
VARIABLES
  desc,          \* the descriptor instances: their current fields
  cache,         \* DebugInfo.cache: descriptor identity -> Value
  cacheCreated,  \* whether DebugInfo.cache is a map yet (not nil)
  nodes,         \* the metadata nodes built so far: handle -> fields
  stack,         \* the frames of the running call, the innermost last
  pc,            \* "idle", "run" or "panic"
  call,          \* the running or last top-level call and the cache before it
  result,        \* what the last completed top-level call returned
  invoked,       \* how often MDNode invoked each descriptor's mdNode
  first,         \* what the first completed MDNode(d) returned
  called,        \* the descriptors passed to a completed top-level call
  ncalls,        \* top-level calls made
  nmut           \* field changes made

vars == <<desc, cache, cacheCreated, nodes, stack, pc, call, result, invoked,
          first, called, ncalls, nmut>>

Ids == DOMAIN desc
Refs == {NilIface, NilPtr} \cup Ids

\* the lists a top-level MDNodes is called with
ListArgs == { <<>>, <<1, NilIface, 1>>, <<Len(desc), NilPtr, 2>> }

NoCall == [op |-> "none", ref |-> NilIface, list |-> <<>>,
           cache0 |-> <<>>, created0 |-> FALSE]
NoResult == [v |-> NoValue, slice |-> [nil |-> TRUE, elems |-> <<>>]]

InitOn(graphs) ==
  /\ desc \in graphs
  /\ cache = <<>>
  /\ cacheCreated = FALSE
  /\ nodes = <<>>
  /\ stack = <<>>
  /\ pc = "idle"
  /\ call = NoCall
  /\ result = NoResult
  /\ invoked = [d \in DOMAIN desc |-> 0]
  /\ first = [d \in DOMAIN desc |-> NoValue]
  /\ called = {}
  /\ ncalls = 0
  /\ nmut = 0

Init == InitOn(Graphs)
InitPaths == InitOn(PathGraphs)

\* ----------------------------------------------------------- the cache
CacheKey_byValue(d) ==
  IF d \in DOMAIN desc
  THEN CHOOSE e \in DOMAIN desc :
         desc[e] = desc[d] /\ \A x \in DOMAIN desc : desc[x] = desc[d] => e <= x
  ELSE d

\* the key of map[DebugDescriptor]Value: the interface value, a pointer
CacheKey(d) == d

\* value, exists := info.cache[d]
CacheHit(c, k) == k \in DOMAIN c

CacheStore_dropped(c, k, v) == c

CacheStore_exceptLine(c, k, v) ==
  IF k \in DOMAIN desc /\ desc[k].kind = "Line" THEN c
  ELSE [e \in DOMAIN c \cup {k} |-> IF e = k THEN v ELSE c[e]]

\* info.cache[d] = value
CacheStore(c, k, v) == [e \in DOMAIN c \cup {k} |-> IF e = k THEN v ELSE c[e]]

EntryBeforeLowering_placeholder(c, d) == CacheStore(c, d, NullValue)

\* the cache while d.mdNode(info) runs: MDNode has recorded nothing for d yet
EntryBeforeLowering(c, d) == c

\* ---------------------------------------------------------- evaluation
\* the handle the package-level MDNode constructor returns for a node it
\* builds on heap hp: a node of its own
NewNode(hp) == NodeRef(Len(hp) + 1)

NewFrame(d, plan) == [d |-> d, plan |-> plan, pos |-> 1, acc |-> <<>>]

Blocked(f) == f.pos <= Len(f.plan)
Complete(f) == f.pos > Len(f.plan)

\* the frame with the value of its current item delivered
Deliver(f, v) == [f EXCEPT !.pos = @ + 1, !.acc = Append(@, v)]

\* the one element of a singleton set
Only(X) == CHOOSE x \in X : TRUE

\* The current item of frame st.f cannot be evaluated without invoking a
\* mdNode: a reference MDNode finds not nil and not cached.
Misses(st, c) ==
  /\ Blocked(st.f)
  /\ st.f.plan[st.f.pos].op = "lower"
  /\ ~IsNil(st.f.plan[st.f.pos].ref)
  /\ ~CacheHit(c, CacheKey(st.f.plan[st.f.pos].ref))

\* One item of frame st.f evaluated with cache c; st holds the frame, the
\* node heap and whether the cache map is created.
Eval(st, c) ==
  LET f == st.f
      it == f.plan[f.pos]
      k == Len(f.acc)
  IN  CASE it.op = "push" -> [st EXCEPT !.f = Deliver(f, it.v)]
        [] it.op = "wrap" ->
             [st EXCEPT !.f = [f EXCEPT !.pos = @ + 1,
                                        !.acc = Append(SubSeq(@, 1, k - it.n),
                                                       NewNode(st.nodes))],
                        !.nodes = Append(@, SubSeq(f.acc, k - it.n + 1, k))]
        [] it.op = "lower" ->
             IF IsNil(it.ref) THEN [st EXCEPT !.f = Deliver(f, NullValue)]
             ELSE [st EXCEPT !.f = Deliver(f, c[CacheKey(it.ref)]),
                             !.created = TRUE]

\* Evaluate the items of frame st.f from its position on, up to the first
\* reference that MDNode must lower by invoking mdNode or to the end of
\* the list.
RECURSIVE RunFrom(_, _)
RunFrom(st, c) ==
  IF Complete(st.f) THEN st
  ELSE IF Misses(st, c) THEN [st EXCEPT !.created = TRUE]
  ELSE Only({RunFrom(x, c) : x \in {Eval(st, c)}})

Run(f, c, hp, created) ==
  Only({RunFrom(x, c) : x \in {[f |-> f, nodes |-> hp, created |-> created]}})

Top == stack[Len(stack)]
Idle == pc = "idle"

Begin(op, ref, list, plan) ==
  /\ Idle
  /\ ncalls < MaxCalls
  /\ \E r \in {Run(NewFrame(NilIface, plan), cache, nodes, cacheCreated)} :
       /\ stack' = <<r.f>>
       /\ nodes' = r.nodes
       /\ cacheCreated' = r.created
  /\ ncalls' = ncalls + 1
  /\ pc' = "run"
  /\ call' = [op |-> op, ref |-> ref, list |-> list,
              cache0 |-> cache, created0 |-> cacheCreated]
  /\ result' = NoResult
  /\ UNCHANGED <<desc, cache, invoked, first, called, nmut>>

\* a call of DebugInfo.MDNode(d) by the frontend
CallMDNode == \E d \in Refs : Begin("MDNode", d, <<>>, Lower(d))

\* a call of DebugInfo.MDNodes(list) by the frontend
CallMDNodes == \E l \in ListArgs : Begin("MDNodes", NilIface, l, MDNodes(l))

\* MDNode found no entry: value = d.mdNode(info)
Invoke ==
  /\ pc = "run"
  /\ Blocked(Top)
  /\ Len(stack) < MaxDepth
  /\ LET d == Top.plan[Top.pos].ref IN
     IF d \in DOMAIN desc
     THEN \E r \in {Run(NewFrame(d, mdNode(desc[d])), EntryBeforeLowering(cache, d),
                        nodes, cacheCreated)} :
            /\ invoked' = [invoked EXCEPT ![d] = @ + 1]
            /\ cache' = EntryBeforeLowering(cache, d)
            /\ stack' = Append(stack, r.f)
            /\ nodes' = r.nodes
            /\ cacheCreated' = r.created
            /\ pc' = pc
     ELSE \* mdNode dereferences a nil pointer
          /\ pc' = "panic"
          /\ UNCHANGED <<invoked, cache, stack, nodes, cacheCreated>>
  /\ UNCHANGED <<desc, call, result, first, called, ncalls, nmut>>

\* mdNode returns its node; MDNode records it and returns it to its caller
Return ==
  /\ pc = "run"
  /\ Len(stack) > 1
  /\ Complete(Top)
  /\ \E c \in {CacheStore(cache, CacheKey(Top.d), NewNode(nodes))} :
     \E r \in {Run(Deliver(stack[Len(stack) - 1], NewNode(nodes)), c,
                   Append(nodes, Top.acc), cacheCreated)} :
       /\ cache' = c
       /\ nodes' = r.nodes
       /\ cacheCreated' = r.created
       /\ stack' = Append(SubSeq(stack, 1, Len(stack) - 2), r.f)
  /\ UNCHANGED <<desc, pc, call, result, invoked, first, called, ncalls, nmut>>

\* the top-level call returns to the frontend
Finish ==
  /\ pc = "run"
  /\ Len(stack) = 1
  /\ Complete(Top)
  /\ pc' = "idle"
  /\ stack' = <<>>
  /\ IF call.op = "MDNode"
     THEN /\ result' = [NoResult EXCEPT !.v = Top.acc[1]]
          /\ called' = called \cup ({call.ref} \cap Ids)
          /\ first' = IF call.ref \in Ids /\ first[call.ref] = NoValue
                      THEN [first EXCEPT ![call.ref] = Top.acc[1]]
                      ELSE first
     ELSE /\ result' = [NoResult EXCEPT
                          !.slice = MDNodesResult(Len(call.list), Top.acc)]
          /\ called' = called \cup ({call.list[i] : i \in DOMAIN call.list} \cap Ids)
          /\ first' = [d \in Ids |->
                         IF first[d] = NoValue /\ \E i \in DOMAIN call.list : call.list[i] = d
                         THEN Top.acc[CHOOSE i \in DOMAIN call.list :
                                        /\ call.list[i] = d
                                        /\ \A j \in 1..(i - 1) : call.list[j] # d]
                         ELSE first[d]]
  /\ UNCHANGED <<desc, cache, cacheCreated, nodes, call, invoked, ncalls, nmut>>

HasLine(dsc) == dsc.kind \notin {"File", "Context", "CompileUnit"}

\* the frontend changes a field of a descriptor between two calls
Mutate ==
  /\ Idle
  /\ nmut < MaxMutations
  /\ \E d \in Ids :
       /\ HasLine(desc[d])
       /\ desc' = [desc EXCEPT ![d].Line = @ + 1]
  /\ nmut' = nmut + 1
  /\ UNCHANGED <<cache, cacheCreated, nodes, stack, pc, call, result, invoked,
                 first, called, ncalls>>

Step == Invoke \/ Return \/ Finish

Next == CallMDNode \/ CallMDNodes \/ Invoke \/ Return \/ Finish \/ Mutate

Spec == Init /\ [][Next]_vars
SpecPaths == InitPaths /\ [][Next]_vars
\* a call runs to completion: the pass is single-threaded and synchronous
SpecFair == Init /\ [][Next]_vars /\ WF_vars(Step)

\* --------------------------------------------------- claims: helpers
CallDone == pc = "idle" /\ call.op # "none"
Fields(v) == nodes[v.id]
Range(q) == {q[i] : i \in DOMAIN q}

\* the descriptors MDNode lowers while it evaluates dsc's mdNode
LoweredRefs(dsc) ==
  {it.ref : it \in {x \in Range(mdNode(dsc)) : x.op = "lower"}} \cap Ids

\* the reference graph: descriptor -> the descriptors its lowering lowers
RefGraph == [d \in Ids |-> LoweredRefs(desc[d])]

RECURSIVE ReachN(_, _, _)
ReachN(G, X, n) ==
  IF n = 0 THEN X
  ELSE Only({ReachN(G, Y, n - 1) : Y \in {X \cup UNION {G[d] : d \in X}}})

\* the descriptors reachable in G from those of X, X included
ClosureIn(G, X) == ReachN(G, X, Cardinality(DOMAIN G))
ReachesSelfIn(G, d) == d \in ClosureIn(G, G[d])
AcyclicIn(G, d) == \A e \in ClosureIn(G, {d}) : ~ReachesSelfIn(G, e)

Closure(X) == \* of the current descriptors
  Only({ClosureIn(G, X) : G \in {RefGraph}})
ReachesSelf(d) == \E G \in {RefGraph} : ReachesSelfIn(G, d)

\* C1: every completed call with the same descriptor instance returns the
\* node the first completed call returned, also after a field of the
\* descriptor has changed, and each descriptor handed to a completed call
\* has had its mdNode invoked exactly once.
C1_SameNodeLoweredOnce ==
  /\ \A d \in called : invoked[d] = 1 /\ d \in DOMAIN cache /\ first[d] = cache[d]
  /\ (CallDone /\ call.op = "MDNode" /\ call.ref \in Ids)
       => result.v = first[call.ref]
  /\ (CallDone /\ call.op = "MDNodes")
       => \A i \in DOMAIN call.list :
            call.list[i] \in Ids => result.slice.elems[i] = first[call.list[i]]

\* a second MDNode(d) on a basic type whose Line changed after the first
\* returned the node built before the change
C1_Witness ==
  /\ CallDone /\ ncalls = 2 /\ call.op = "MDNode" /\ call.ref = 2
  /\ desc[2].kind = "BasicType"
  /\ Len(nodes) = 2
  /\ result.v = first[2]
  /\ Fields(result.v)[5] # ConstInt(32, desc[2].Line)
  /\ invoked[2] = 1

\* C2: two distinct descriptor instances with equal fields, both lowered
\* through the same DebugInfo, are each lowered once, have an entry each, and
\* have two distinct nodes.
C2_IdentityKeyed ==
  \A d1 \in called : \A d2 \in called :
    (d1 # d2 /\ desc[d1] = desc[d2])
      => /\ {d1, d2} \subseteq DOMAIN cache
         /\ invoked[d1] = 1 /\ invoked[d2] = 1
         /\ cache[d1] # cache[d2]

\* the two equal basic types are both lowered: two nodes with equal fields
C2_Witness ==
  /\ {2, 3} \subseteq called
  /\ desc[2] = desc[3] /\ desc[2].kind = "BasicType"
  /\ cache[2] # cache[3]
  /\ Fields(cache[2]) = Fields(cache[3])

\* C3: MDNode of a nil interface or of a boxed nil pointer returns the
\* empty value without failing and leaves the cache as it was: no entry
\* added, the map not created.
C3_NilReturnsEmpty ==
  (call.op = "MDNode" /\ call.ref \notin Ids)
    => /\ pc # "panic"
       /\ cache = call.cache0
       /\ cacheCreated = call.created0
       /\ (pc = "run" => Len(stack) = 1 /\ Complete(Top) /\ Top.acc = <<NullValue>>)
       /\ (pc = "idle" => result.v = NullValue)

\* MDNode of a boxed nil pointer has returned on a DebugInfo with no map
C3_Witness ==
  /\ CallDone /\ call.op = "MDNode" /\ call.ref = NilPtr
  /\ result.v = NullValue
  /\ ~cacheCreated /\ cache = <<>>

\* C4: MDNodes of n > 0 descriptors returns n values, the i-th being what
\* MDNode returns for the i-th descriptor; of an empty list it returns the
\* nil slice and leaves the cache as it was.
C4_MDNodesPositional ==
  (CallDone /\ call.op = "MDNodes")
    => LET n == Len(call.list)
           v == result.slice
       IN  IF n = 0
           THEN v.nil /\ v.elems = <<>> /\ cache = call.cache0
                /\ cacheCreated = call.created0
           ELSE /\ ~v.nil
                /\ Len(v.elems) = n
                /\ \A i \in 1..n :
                     v.elems[i] = IF call.list[i] \in Ids
                                  THEN cache[call.list[i]] ELSE NullValue

\* MDNodes of a list with three different elements, one of them nil
C4_Witness ==
  /\ CallDone /\ call.op = "MDNodes" /\ Len(call.list) = 3
  /\ call.list[1] # call.list[3] /\ call.list[2] = NilPtr
  /\ result.slice.elems[1] = cache[call.list[1]]
  /\ result.slice.elems[2] = NullValue
  /\ result.slice.elems[3] = cache[call.list[3]]
  /\ result.slice.elems[1] # result.slice.elems[3]

\* ------------------------------------------------ the layout table
\* One entry per field: tag+version, a reference field, a null
\* placeholder, a string, an integer of a width, a fixed integer, a lowered
\* list as a nested node, a file node built directly, a generated value.
TagField == <<[c |-> "T"]>>
RefField(field) == <<[c |-> "R", field |-> field]>>
NullField == <<[c |-> "N"]>>
StrField == <<[c |-> "S"]>>
IntField(bits) == <<[c |-> "I", bits |-> bits]>>
FixedField(bits, n) == <<[c |-> "K", bits |-> bits, n |-> n]>>
ListField(field) == <<[c |-> "L", field |-> field]>>
FileField == <<[c |-> "F"]>>
ValueField(field) == <<[c |-> "V", field |-> field]>>

Layout(kind) ==
  CASE kind = "BasicType" ->
         TagField \o RefField("File") \o RefField("Context") \o StrField \o IntField(32) \o IntField(64) \o IntField(64)
           \o IntField(64) \o IntField(32) \o IntField(32)
    [] kind = "CompositeType" ->
         TagField \o RefField("File") \o RefField("Context") \o StrField \o IntField(32) \o IntField(64) \o IntField(64)
           \o IntField(64) \o IntField(32) \o NullField \o ListField("Members") \o FixedField(32, 0) \o FixedField(32, 0)
    [] kind = "DerivedType" ->
         TagField \o RefField("File") \o RefField("Context") \o StrField \o IntField(32) \o IntField(64) \o IntField(64)
           \o IntField(64) \o IntField(32) \o RefField("Base")
    [] kind = "CompileUnit" ->
         TagField \o FileField \o IntField(32) \o StrField \o IntField(1) \o StrField \o IntField(32) \o ListField("EnumTypes")
           \o ListField("RetainedTypes") \o ListField("Subprograms") \o ListField("GlobalVariables")
           \o NullField \o StrField
    [] kind = "Subprogram" ->
         TagField \o FileField \o RefField("Context") \o StrField \o StrField \o StrField \o IntField(32) \o RefField("Type")
           \o FixedField(1, 0) \o FixedField(1, 1) \o FixedField(32, 0) \o FixedField(32, 0) \o NullField
           \o FixedField(32, FlagPrototyped) \o FixedField(1, 0) \o ValueField("Function") \o NullField \o NullField \o NullField
           \o IntField(32)
    [] kind = "GlobalVariable" ->
         TagField \o FixedField(32, 0) \o RefField("Context") \o StrField \o StrField \o NullField \o RefField("File") \o IntField(32)
           \o RefField("Type") \o IntField(1) \o IntField(1) \o ValueField("Value")
    [] kind = "LocalVariable" ->
         TagField \o RefField("Context") \o StrField \o RefField("File") \o IntField(32) \o RefField("Type")
           \o FixedField(32, 0) \o FixedField(32, 0)
    [] kind = "File" -> StrField \o StrField
    [] kind = "Line" -> IntField(32) \o IntField(32) \o RefField("Context") \o NullField
    [] kind = "Block" -> TagField \o RefField("File") \o RefField("Context") \o IntField(32) \o IntField(32) \o IntField(32)
    [] kind = "Context" -> TagField \o FileField

FieldCount(kind) ==
  CASE kind = "BasicType" -> 10
    [] kind = "CompositeType" -> 13
    [] kind = "DerivedType" -> 10
    [] kind = "CompileUnit" -> 13
    [] kind = "Subprogram" -> 20
    [] kind = "GlobalVariable" -> 12
    [] kind = "LocalVariable" -> 8
    [] kind = "File" -> 2
    [] kind = "Line" -> 4
    [] kind = "Block" -> 6
    [] kind = "Context" -> 2

\* what lowering reference r gives once r is lowered
Lowered(r) == IF r \in Ids THEN cache[r] ELSE NullValue

\* value v is what entry e of the layout asks for, in descriptor dsc
Matches(v, e, dsc) ==
  CASE e.c = "T" -> v = ConstInt(32, LLVMDebugVersion + Tag(dsc))
    [] e.c = "R" -> v = Lowered(dsc[e.field])
    [] e.c = "N" -> v = NullValue \/ (v.t = "node" /\ Fields(v) = <<>>)
    [] e.c = "S" -> v.t = "str"
    [] e.c = "I" -> v.t = "int" /\ v.bits = e.bits
    [] e.c = "K" -> v = ConstInt(e.bits, e.n)
    [] e.c = "L" -> /\ v.t = "node"
                    /\ Len(Fields(v)) = Len(dsc[e.field])
                    /\ \A i \in DOMAIN dsc[e.field] :
                         Fields(v)[i] = Lowered(dsc[e.field][i])
    [] e.c = "F" -> /\ v.t = "node"
                    /\ Len(Fields(v)) = 2
                    /\ Fields(v)[1].t = "str" /\ Fields(v)[2].t = "str"
    [] e.c = "V" -> v = dsc[e.field]

C6_FirstFieldEveryVariant ==
  \A d \in DOMAIN cache :
    /\ ~TagPanics(desc[d])
    /\ Fields(cache[d])[1] = ConstInt(32, LLVMDebugVersion + Tag(desc[d]))

\* C6 amended: the first field of the node of every variant but File and
\* Line is LLVMDebugVersion plus the descriptor's Tag(); the first field of
\* a File node is its file name and of a Line node its line.
C6_FirstFieldTaggedVariants ==
  \A d \in DOMAIN cache :
    LET first1 == Fields(cache[d])[1] IN
    CASE desc[d].kind = "File" -> first1 = MDString(Filename(desc[d].Path))
      [] desc[d].kind = "Line" -> first1.t = "int" /\ first1.bits = 32
      [] OTHER -> first1 = ConstInt(32, LLVMDebugVersion + Tag(desc[d]))

\* a compile unit with its subprogram, global variable and context lowered
C6_Witness ==
  /\ \E d \in DOMAIN cache : desc[d].kind = "CompileUnit"
  /\ \E d \in DOMAIN cache :
       /\ desc[d].kind = "Context"
       /\ Fields(cache[d])[1] = ConstInt(32, 786432 + 41)
  /\ \E d \in DOMAIN cache : desc[d].kind = "Subprogram"

\* ------------------------------------------------- order independence
\* a value with every node handle replaced by the fields of its node
RECURSIVE Expand(_)
Expand(v) ==
  IF v.t = "node"
  THEN [t |-> "tree", f |-> [i \in DOMAIN Fields(v) |-> Expand(Fields(v)[i])]]
  ELSE v

\* The fields a descriptor stands for in the graph alone, with no cache and
\* no call order: every reference replaced by what the referenced
\* descriptor stands for.
RECURSIVE Denote(_), DenoteItems(_, _, _)
Denote(d) == [t |-> "tree", f |-> DenoteItems(mdNode(desc[d]), 1, <<>>)]
DenoteItems(plan, pos, acc) ==
  IF pos > Len(plan) THEN acc
  ELSE LET it == plan[pos]
           k == Len(acc)
       IN  CASE it.op = "push" -> DenoteItems(plan, pos + 1, Append(acc, it.v))
             [] it.op = "lower" ->
                  DenoteItems(plan, pos + 1,
                    Append(acc, IF it.ref \in Ids THEN Denote(it.ref) ELSE NullValue))
             [] it.op = "wrap" ->
                  DenoteItems(plan, pos + 1,
                    Append(SubSeq(acc, 1, k - it.n),
                           [t |-> "tree", f |-> SubSeq(acc, k - it.n + 1, k)]))

C7_OrderFree ==
  nmut = 0 =>
    /\ \A d \in DOMAIN cache : Expand(cache[d]) = Denote(d)
    /\ Idle => DOMAIN cache = Closure(called)

C7_OnlyAddsEntries ==
  /\ \A d \in DOMAIN cache : d \in DOMAIN cache' /\ cache'[d] = cache[d]
  /\ nmut' = nmut => desc' = desc
  /\ Len(nodes') >= Len(nodes) /\ SubSeq(nodes', 1, Len(nodes)) = nodes

\* C7: with no field changed, the cache after any calls holds exactly the
\* descriptors reachable from those passed, each with the fields its graph
\* determines, whatever the order of the calls; and a step of a lowering
\* changes nothing but to add cache entries (and nodes).
C7_OrderIndependent == []C7_OrderFree /\ [][C7_OnlyAddsEntries]_vars

\* the two equal basic types lowered by two calls, the second before the first
C7_Witness ==
  /\ Idle /\ nmut = 0 /\ ncalls = 2
  /\ called = {2, 3} /\ desc[2].kind = "BasicType"
  /\ cache[3].id < cache[2].id
  /\ Expand(cache[2]) = Expand(cache[3])

\* C8 as stated: a Line descriptor lowered through MDNode leaves no cache
\* entry, and a later lowering of it shows its current line.
C8_LineNotInterned ==
  /\ \A d \in DOMAIN cache : desc[d].kind # "Line"
  /\ (CallDone /\ call.op = "MDNode" /\ call.ref \in Ids /\ desc[call.ref].kind = "Line")
       => Fields(result.v)[1] = ConstInt(32, desc[call.ref].Line)

\* C8 amended: a Line descriptor is cached like every other descriptor:
\* each Line instance passed to a completed call has an entry of its own,
\* was lowered once, and a later MDNode of it returns the node first built.
C8_LineInterned ==
  LET lines(X) == {d \in X : desc[d].kind = "Line"} IN
  /\ \A d \in lines(called) :
       /\ d \in DOMAIN cache
       /\ invoked[d] = 1
       /\ cache[d] = first[d]
  /\ \A d1 \in lines(called) : \A d2 \in lines(called) :
       d1 # d2 => cache[d1] # cache[d2]
  /\ (CallDone /\ call.op = "MDNode" /\ call.ref \in lines(Ids))
       => result.v = first[call.ref]

\* a second MDNode of a Line whose line changed after the first returned
\* the node with the old line
C8_Witness ==
  /\ CallDone /\ ncalls = 2 /\ call.op = "MDNode" /\ call.ref \in Ids
  /\ desc[call.ref].kind = "Line"
  /\ result.v = cache[call.ref]
  /\ Fields(result.v)[1] # ConstInt(32, desc[call.ref].Line)

\* ------------------------------------------------------ path splitting
\* C9: the node of a File holds (filename, directory): the file name is
\* what follows the last '/', a path with no '/' gives (path, ""), and
\* directory + "/" + filename is the stored path whenever the path has a
\* '/', so the directory is what precedes the last '/'.
C9_PathSplit ==
  \A d \in DOMAIN cache :
    desc[d].kind = "File" =>
      LET p == desc[d].Path
          filename == Fields(cache[d])[1].s
          directory == Fields(cache[d])[2].s
      IN  /\ Fields(cache[d])[1].t = "str" /\ Fields(cache[d])[2].t = "str"
          /\ "/" \notin Range(filename)
          /\ "/" \notin Range(p) => filename = p /\ directory = <<>>
          /\ "/" \in Range(p) => directory \o <<"/">> \o filename = p
          /\ p = <<"/", "a", "/", "b", "/", "c", ".", "x">>
               => /\ filename = <<"c", ".", "x">>
                  /\ directory = <<"/", "a", "/", "b">>

\* the file "/a/b/c.x" is lowered
C9_Witness ==
  \E d \in DOMAIN cache :
    /\ desc[d].kind = "File"
    /\ desc[d].Path = <<"/", "a", "/", "b", "/", "c", ".", "x">>
    /\ Fields(cache[d]) = << MDString(<<"c", ".", "x">>),
                             MDString(<<"/", "a", "/", "b">>) >>

\* ----------------------------------------------------------- recursion
\* the running call was given only descriptors that reach no cycle
TargetsAcyclic ==
  \E G \in {RefGraph} :
    \A d \in ({call.ref} \cup Range(call.list)) \cap Ids : AcyclicIn(G, d)

\* the running call is MDNode(d) for a d that reaches itself
TargetCyclic == call.op = "MDNode" /\ call.ref \in Ids /\ ReachesSelf(call.ref)

C10_Safe ==
  /\ \A i \in 2..Len(stack) : stack[i].d \notin DOMAIN cache
  /\ \E G \in {RefGraph} :
       /\ \A d \in Ids : ReachesSelfIn(G, d) => d \notin DOMAIN cache /\ d \notin called
       /\ \A d \in Ids : AcyclicIn(G, d) => invoked[d] <= 1
  /\ pc # "panic"

C10_NeverReturns == (pc = "run" /\ TargetCyclic) => pc' = "run"

\* C10: no entry is recorded for a descriptor while its mdNode runs; a call
\* on descriptors that reach no cycle returns, each descriptor lowered at
\* most once; MDNode(d) of a d that reaches itself never returns and never
\* records an entry for d.
C10_CacheAfterLowering ==
  /\ []C10_Safe
  /\ [][C10_NeverReturns]_vars
  /\ (pc = "run" /\ TargetsAcyclic) ~> (pc = "idle")

\* MDNode of the pointer whose base is the struct holding it has recursed
\* as deep as the model follows it, with no entry for the pointer
C10_Witness ==
  /\ pc = "run" /\ TargetCyclic
  /\ desc[call.ref].kind = "DerivedType"
  /\ Len(stack) = MaxDepth
  /\ invoked[call.ref] >= 2
  /\ call.ref \notin DOMAIN cache

====
